---- MODULE Spec2Model ----
(***************************************************************************)
(* A model of ls.py: the directory-listing pipeline                        *)
(*   main -> run -> getfiles -> get_dir_listing / processrows / sorted     *)
(*        -> renderrows -> display                                         *)
(* over a small file system.  Strings are sequences of character codes,    *)
(* paths are strings, and the os.path calls the program makes are          *)
(* operators over the file-system tree held in the variable cwd.           *)
(***************************************************************************)
EXTENDS Integers, Sequences, FiniteSets, TLC

(***************************************************************************)
(* Bounds of the model.                                                    *)
(***************************************************************************)
MaxEntries == 2        \* entries in the working directory
MaxFiller == 34        \* generated children of the previewed directory
MaxSymlinks == 2       \* links the kernel follows before ELOOP
MaxRows == 2           \* rows of a row set handed to getcolpaddings
MaxEdits == 2          \* cell replacements applied to a row set

(***************************************************************************)
(* Python strings: sequences of code points.                               *)
(***************************************************************************)
None == <<-1>>          \* Python's None where a str is expected

Max(S) == CHOOSE x \in S : \A y \in S : y <= x

Take(s, n) == SubSeq(s, 1, IF n < Len(s) THEN n ELSE Len(s))      \* s[:n]

Drop(s, n) == SubSeq(s, n + 1, Len(s))                            \* s[n:]

\* ''.join(ss), halving the list so that the evaluation stays shallow
RECURSIVE Concat(_)
Concat(ss) ==
    IF ss = <<>> THEN <<>>
    ELSE IF Len(ss) = 1 THEN ss[1]
    ELSE Concat(SubSeq(ss, 1, Len(ss) \div 2))
            \o Concat(SubSeq(ss, (Len(ss) \div 2) + 1, Len(ss)))

\* sep.join(ss)
Join(sep, ss) ==
    Concat([i \in 1..Len(ss) |-> IF i = 1 THEN ss[i] ELSE sep \o ss[i]])

\* str.isspace / the regex class \s, for the code points the model uses
IsSpace(c) == c \in (9..13) \cup (28..32) \cup {133, 160}

Lower(s) == [i \in 1..Len(s) |-> IF s[i] \in 65..90 THEN s[i] + 32 ELSE s[i]]

RECURSIVE LStrip(_)
LStrip(s) == IF s # <<>> /\ IsSpace(Head(s)) THEN LStrip(Tail(s)) ELSE s

RECURSIVE RStrip(_)
RStrip(s) ==
    IF s # <<>> /\ IsSpace(s[Len(s)]) THEN RStrip(SubSeq(s, 1, Len(s) - 1)) ELSE s

Strip(s) == RStrip(LStrip(s))

\* s.rfind(' '): the 0-based index of the last space, or -1
RFindSpace(s) ==
    IF \E i \in 1..Len(s) : s[i] = 32
    THEN Max({i \in 1..Len(s) : s[i] = 32}) - 1
    ELSE -1

\* sub in s
Contains(s, sub) ==
    \E i \in 0..(Len(s) - Len(sub)) : SubSeq(s, i + 1, i + Len(sub)) = sub

\* Python's ordering of str: by code point, a proper prefix first
RECURSIVE StrLess(_, _)
StrLess(a, b) ==
    IF b = <<>> THEN FALSE
    ELSE IF a = <<>> THEN TRUE
    ELSE IF Head(a) # Head(b) THEN Head(a) < Head(b)
    ELSE StrLess(Tail(a), Tail(b))

RECURSIVE Dec(_)
Dec(n) == IF n < 10 THEN <<48 + n>> ELSE Dec(n \div 10) \o <<48 + (n % 10)>>   \* str(n)

RECURSIVE Oct(_)
Oct(n) == IF n < 8 THEN <<48 + n>> ELSE Oct(n \div 8) \o <<48 + (n % 8)>>

Pad3(n) == <<48 + (n \div 100), 48 + ((n \div 10) % 10), 48 + (n % 10)>>

RECURSIVE Commas(_)
Commas(n) ==                                                      \* '{:,}'.format(n)
    IF n < 1000 THEN Dec(n) ELSE Commas(n \div 1000) \o <<44>> \o Pad3(n % 1000)

Spaces(n) == [i \in 1..n |-> 32]

(***************************************************************************)
(* The file system.  A node is a regular file (its bytes), a directory     *)
(* (its entries, in os.listdir order) or a symbolic link (its target).     *)
(* mode holds the permission bits; the caller owns every node and is not   *)
(* the superuser, so os.access answers with the owner bits.                *)
(***************************************************************************)
Reg(data, mode) ==
    [kind |-> "reg", mode |-> mode, data |-> data, children |-> <<>>, target |-> <<>>]

Dir(children, mode) ==
    [kind |-> "dir", mode |-> mode, data |-> <<>>, children |-> children, target |-> <<>>]

Link(target) ==
    [kind |-> "link", mode |-> 511, data |-> <<>>, children |-> <<>>, target |-> target]

NoNode ==
    [kind |-> "none", mode |-> 0, data |-> <<>>, children |-> <<>>, target |-> <<>>]

Entry(name, node) == [name |-> name, node |-> node]

N_a == <<97>>                \* "a"
N_B == <<66>>                \* "B"
N_sb == <<32, 98>>           \* " b"
N_x == <<120>>               \* "x"
N_Y == <<89>>                \* "Y"
N_w == <<119>>               \* "w", the working directory's own name
N_e == <<101>>               \* "e"
N_t == <<116>>               \* "t"
P_e == <<47, 101>>           \* "/e"
P_t == <<47, 116>>           \* "/t"
P_cur == <<46, 47>>          \* "./"
DOT == <<46>>
DOTDOT == <<46, 46>>
SLASH == <<47>>

D_hi == <<104, 105>>         \* "hi"
D_ws == <<32, 10>>           \* " \n"

Names == {N_a, N_B, N_sb}

FileVariants == {Reg(<<>>, 420), Reg(<<>>, 0), Reg(D_hi, 420), Reg(D_ws, 420)}

SubEntries == <<Entry(N_x, Reg(D_hi, 420)), Entry(N_Y, Dir(<<>>, 493))>>

DirVariants == {Dir(<<>>, 493), Dir(SubEntries, 493), Dir(SubEntries, 0)}

LinkVariants == {Link(N_a), Link(N_B), Link(P_t)}

NodeVariants == FileVariants \cup DirVariants \cup LinkVariants

NameRank(name) == CASE name = N_sb -> 1 [] name = N_B -> 2 [] name = N_a -> 3

\* the contents a working directory can have: distinct names, listed by
\* os.listdir in ascending or in descending order of the name
CwdChoices ==
    {s \in UNION {[1..n -> {Entry(nm, nd) : nm \in Names, nd \in NodeVariants}] :
                    n \in 0..MaxEntries} :
        \/ \A i, j \in 1..Len(s) : i < j => NameRank(s[i].name) < NameRank(s[j].name)
        \/ \A i, j \in 1..Len(s) : i < j => NameRank(s[i].name) > NameRank(s[j].name)}

VARIABLES cwd

CwdAbs == <<N_w>>            \* the working directory is /w

\* "/" holds the working directory, the empty directory /e and the link /t -> /e
Root ==
    Dir(<<Entry(N_w, Dir(cwd, 493)), Entry(N_e, Dir(<<>>, 493)), Entry(N_t, Link(P_e))>>,
        493)

ChildOf(node, name) ==
    IF \E i \in 1..Len(node.children) : node.children[i].name = name
    THEN node.children[CHOOSE i \in 1..Len(node.children) :
                           node.children[i].name = name].node
    ELSE NoNode

RECURSIVE NodeFrom(_, _)
NodeFrom(node, comps) ==
    IF comps = <<>> THEN node ELSE NodeFrom(ChildOf(node, Head(comps)), Tail(comps))

NodeAt(abs) == NodeFrom(Root, abs)      \* the node at an absolute component list

RECURSIVE SplitFrom(_, _)
SplitFrom(p, cur) ==
    IF p = <<>> THEN (IF cur = <<>> THEN <<>> ELSE <<cur>>)
    ELSE IF Head(p) = 47
         THEN (IF cur = <<>> THEN <<>> ELSE <<cur>>) \o SplitFrom(Tail(p), <<>>)
         ELSE SplitFrom(Tail(p), Append(cur, Head(p)))

Split(p) == SplitFrom(p, <<>>)          \* the non-empty components of a path

IsAbs(p) == p # <<>> /\ p[1] = 47

Base(p) == IF IsAbs(p) THEN <<>> ELSE CwdAbs

Parent(abs) == IF abs = <<>> THEN <<>> ELSE SubSeq(abs, 1, Len(abs) - 1)

CanRead(node) == (node.mode \div 256) % 2 = 1

CanWrite(node) == (node.mode \div 128) % 2 = 1

CanExec(node) == (node.mode \div 64) % 2 = 1

\* The kernel's path walk behind os.stat (final = TRUE) and os.lstat (FALSE).
RECURSIVE KWalk(_, _, _, _)
KWalk(cur, rest, budget, final) ==
    IF rest = <<>> THEN [ok |-> TRUE, at |-> cur]
    ELSE LET h == Head(rest)
             t == Tail(rest)
             here == NodeAt(cur)
             cand == Append(cur, h)
             n == NodeAt(cand)
         IN  IF here.kind # "dir" \/ ~CanExec(here) THEN [ok |-> FALSE, at |-> cur]
             ELSE IF h = DOT THEN KWalk(cur, t, budget, final)
             ELSE IF h = DOTDOT THEN KWalk(Parent(cur), t, budget, final)
             ELSE IF n.kind = "none" THEN [ok |-> FALSE, at |-> cand]
             ELSE IF n.kind = "link" /\ (t # <<>> \/ final)
                  THEN IF budget = 0 THEN [ok |-> FALSE, at |-> cand]
                       ELSE KWalk(IF IsAbs(n.target) THEN <<>> ELSE cur,
                                  Split(n.target) \o t, budget - 1, final)
             ELSE KWalk(cand, t, budget, final)

Stat(p) == KWalk(Base(p), Split(p), MaxSymlinks, TRUE)

Lstat(p) == KWalk(Base(p), Split(p), MaxSymlinks, FALSE)

\* the node a walk ended at; NoNode (no permission at all) when it failed
NodeOf(walk) == IF walk.ok THEN NodeAt(walk.at) ELSE NoNode

StatNode(p) == NodeOf(Stat(p))

LstatNode(p) == NodeOf(Lstat(p))

exists(p) == Stat(p).ok                           \* os.path.exists

isdir(p) == StatNode(p).kind = "dir"              \* os.path.isdir

islink(p) == LstatNode(p).kind = "link"           \* os.path.islink

access_R(p) == CanRead(StatNode(p))                \* os.access(p, os.R_OK)

access_W(p) == CanWrite(StatNode(p))               \* os.access(p, os.W_OK)

access_X(p) == CanExec(StatNode(p))                \* os.access(p, os.X_OK)

NamesOf(node) == [i \in 1..Len(node.children) |-> node.children[i].name]

listdir(p) == NamesOf(StatNode(p))                 \* os.listdir of a readable directory

\* posixpath._joinrealpath, not strict: a missing component is kept as it is
\* and a link met twice ends the walk with the rest of the path joined on.
RECURSIVE RWalk(_, _, _)
RWalk(cur, rest, seen) ==
    IF rest = <<>> THEN [ok |-> TRUE, at |-> cur]
    ELSE LET h == Head(rest)
             t == Tail(rest)
             cand == Append(cur, h)
             n == NodeOf(KWalk(<<>>, cand, MaxSymlinks, FALSE))
         IN  IF h = DOT THEN RWalk(cur, t, seen)
             ELSE IF h = DOTDOT THEN RWalk(Parent(cur), t, seen)
             ELSE IF n.kind # "link" THEN RWalk(cand, t, seen)
             ELSE IF cand \in seen THEN [ok |-> FALSE, at |-> cand \o t]
             ELSE LET r == RWalk(IF IsAbs(n.target) THEN <<>> ELSE cur,
                                 Split(n.target), seen \cup {cand})
                  IN  IF ~r.ok THEN [ok |-> FALSE, at |-> r.at \o t]
                      ELSE RWalk(r.at, t, seen \cup {cand})

AbsStr(abs) == IF abs = <<>> THEN SLASH ELSE Concat([i \in 1..Len(abs) |-> SLASH \o abs[i]])

realpath(p) == AbsStr(RWalk(Base(p), Split(p), {}).at)        \* os.path.realpath

\* posixpath.normpath of an absolute path, on its components
RECURSIVE Norm(_, _)
Norm(done, rest) ==
    IF rest = <<>> THEN done
    ELSE IF Head(rest) = DOT THEN Norm(done, Tail(rest))
    ELSE IF Head(rest) = DOTDOT THEN Norm(Parent(done), Tail(rest))
    ELSE Norm(Append(done, Head(rest)), Tail(rest))

abspath(p) == Norm(Base(p), Split(p))

RECURSIVE CommonLen(_, _)
CommonLen(a, b) ==
    IF a = <<>> \/ b = <<>> \/ Head(a) # Head(b) THEN 0
    ELSE 1 + CommonLen(Tail(a), Tail(b))

\* os.path.relpath(p): p as seen from the working directory
relpath(p) ==
    LET pl == abspath(p)
        i == CommonLen(CwdAbs, pl)
        rel == [k \in 1..(Len(CwdAbs) - i) |-> DOTDOT] \o Drop(pl, i)
    IN  IF rel = <<>> THEN DOT ELSE Join(SLASH, rel)

\* os.path.join(a, b) for a relative b
pathjoin(a, b) ==
    IF a = <<>> THEN b
    ELSE IF a[Len(a)] = 47 THEN a \o b
    ELSE a \o SLASH \o b

\* the idiom  relpath(realpath(f)) if islink(f) else f  of the program
real(fname) == IF islink(fname) THEN relpath(realpath(fname)) ELSE fname


(***************************************************************************)
(* The external classifier: what  file --mime --dereference  can write to  *)
(* its standard output, or that the process cannot be started at all.      *)
(***************************************************************************)
O_text == <<58, 32, 116, 101, 120, 116, 47, 112, 108, 97, 105, 110, 10>>
                             \* ": text/plain\n"
O_exec == <<58, 32, 97, 112, 112, 108, 105, 99, 97, 116, 105, 111, 110, 47, 120, 45, 101, 120, 101, 99, 117, 116, 97, 98, 108, 101, 10>>
                             \* ": application/x-executable\n"
O_lib == <<58, 32, 97, 112, 112, 108, 105, 99, 97, 116, 105, 111, 110, 47, 120, 45, 115, 104, 97, 114, 101, 100, 108, 105, 98, 10>>
                             \* ": application/x-sharedlib\n"
O_png == <<58, 32, 105, 109, 97, 103, 101, 47, 112, 110, 103, 10>>
                             \* ": image/png\n"
O_near == <<58, 32, 116, 101, 120, 116, 117, 97, 108, 47, 120, 45, 101, 120, 101, 99, 117, 116, 97, 98, 108, 101, 115, 10>>
                             \* ": textual/x-executables\n"
O_none == <<>>               \* the process wrote nothing

CannotStart == <<-2>>        \* Popen raises: there is no output at all

OracleOutputs == {O_text, O_exec, O_lib, O_png, O_near, O_none}

T_text == <<116, 101, 120, 116>>                     \* "text"
T_exec == <<120, 45, 101, 120, 101, 99, 117, 116, 97, 98, 108, 101>>     \* "x-executable"
T_lib == <<120, 45, 115, 104, 97, 114, 101, 100, 108, 105, 98>>     \* "x-sharedlib"

IsAlpha(c) == c \in (65..90) \cup (97..122)

\* re.search('[^a-zA-Z]' + tok + '[^a-zA-Z]', s) is not None
SearchToken(s, tok) ==
    \E i \in 2..(Len(s) - Len(tok)) :
        /\ SubSeq(s, i, i + Len(tok) - 1) = tok
        /\ ~IsAlpha(s[i - 1])
        /\ ~IsAlpha(s[i + Len(tok)])

\* getfileinfo, given what the process wrote.  stdout is a pipe, so
\* subproc.stdout is never None and rawdata is the bytes read; a process that
\* cannot be started makes Popen raise, and the exception leaves getfileinfo
\* ("raised" stands for it in the callers).
getfileinfo(rawdata) ==
    IF rawdata = CannotStart THEN "raised"
    ELSE IF rawdata = None THEN "unknown"
    ELSE IF SearchToken(rawdata, T_text) THEN "text"
    ELSE IF SearchToken(rawdata, T_exec) \/ SearchToken(rawdata, T_lib)
         THEN "binary_executable"
    ELSE "binary_other"

(***************************************************************************)
(* The entry inspector.                                                    *)
(***************************************************************************)
\* os.lstat(fname): the link itself is described, not its target
lstat(fname) ==
    LET n == LstatNode(fname)
    IN  [st_mode |-> n.mode,
         st_size |-> IF n.kind = "reg" THEN Len(n.data)
                     ELSE IF n.kind = "link" THEN Len(n.target)
                     ELSE 4096,
         st_mtime |-> 0, st_uid |-> 1000, st_gid |-> 1000]

info_ftype(fname, stat_res) ==
    IF isdir(real(fname)) THEN "directory" ELSE "file"

info_timeepoch(fname, stat_res) == <<48 + stat_res.st_mtime, 46, 48>>   \* str(0.0)

\* info_contenttype as it would be without the test of st_size
info_contenttype_nosize(fname, stat_res, out) ==
    IF isdir(fname) THEN [ct |-> "directory", oracle |-> FALSE]
    ELSE IF ~access_R(fname) THEN [ct |-> "not_readable", oracle |-> FALSE]
    ELSE [ct |-> IF getfileinfo(out) \in {"binary_executable", "binary_other", "text", "raised"}
                 THEN getfileinfo(out) ELSE "other",
          oracle |-> TRUE]

\* info_contenttype: the category, and whether getfileinfo was called for it
info_contenttype(fname, stat_res, out) ==
    IF isdir(fname) THEN [ct |-> "directory", oracle |-> FALSE]
    ELSE IF ~access_R(fname) THEN [ct |-> "not_readable", oracle |-> FALSE]
    ELSE IF stat_res.st_size = 0 THEN [ct |-> "empty", oracle |-> FALSE]
    ELSE LET fileinfo == getfileinfo(out)
         IN  [ct |-> IF fileinfo = "raised" THEN "raised"
                     ELSE IF fileinfo = "binary_executable" THEN "binary_executable"
                     ELSE IF fileinfo = "binary_other" THEN "binary_other"
                     ELSE IF fileinfo = "text" THEN "text"
                     ELSE "other",
              oracle |-> TRUE]

\* the record getrowinfo builds once os.lstat has answered
rowinfo_of(fname, stat_res, out) ==
    [fname |-> fname,
     stat_res |-> stat_res,
     ftype |-> info_ftype(fname, stat_res),
     contenttype |-> info_contenttype(fname, stat_res, out).ct,
     timeepoch |-> info_timeepoch(fname, stat_res)]

getrowinfo(fname, out) == rowinfo_of(fname, lstat(fname), out)

(***************************************************************************)
(* The column rules.                                                       *)
(***************************************************************************)
PREVIEW_READ_LEN == 256
PREVIEW_TRUNC_LEN == 48
DIR_SAMPLE_LEN == 32
DIR_TRUNC_LEN == 38

get_acls_me(fname, stat_res) ==
    Dec((IF access_R(fname) THEN 4 ELSE 0) + (IF access_W(fname) THEN 2 ELSE 0)
        + (IF access_X(fname) THEN 1 ELSE 0))

\* str(oct(S_IMODE(mode)))[-3:]; oct() writes "0o" and then the digits
get_acls_all(fname, stat_res) ==
    LET o == <<48, 111>> \o Oct(stat_res.st_mode % 4096)
    IN  Drop(o, IF Len(o) > 3 THEN Len(o) - 3 ELSE 0)

col_acls(rowinfo) ==
    get_acls_all(rowinfo.fname, rowinfo.stat_res) \o <<32>>
        \o get_acls_me(rowinfo.fname, rowinfo.stat_res)

\* the password and group databases name uid 1000 and gid 1000 "user"
col_owner(rowinfo) ==
    LET db == [id \in {1000} |-> <<117, 115, 101, 114>>]
    IN  db[rowinfo.stat_res.st_uid] \o <<58>> \o db[rowinfo.stat_res.st_gid]

getfilesize(rowinfo) == Commas(rowinfo.stat_res.st_size)

\* getsubfilecount once the path to count in is resolved
subfilecount_at(r) ==
    IF ~isdir(r) THEN <<45>>
    ELSE IF ~access_R(r) THEN <<45>>
    ELSE Dec(Len(listdir(r)))

getsubfilecount(rowinfo) == subfilecount_at(real(rowinfo.fname))

col_size(rowinfo) ==
    IF rowinfo.ftype = "directory" THEN getsubfilecount(rowinfo) ELSE getfilesize(rowinfo)

\* strftime('%Y-%m-%d %H:%M:%S') of the epoch, the mtime of every node here
col_timeiso(rowinfo) ==
    <<49, 57, 55, 48, 45, 48, 49, 45, 48, 49, 32, 48, 48, 58, 48, 48, 58, 48, 48>>

col_srcname(rowinfo) ==
    IF rowinfo.ftype = "directory" THEN rowinfo.fname \o SLASH ELSE rowinfo.fname

col_targetname(rowinfo) ==
    IF islink(rowinfo.fname)
    THEN relpath(realpath(rowinfo.fname))
            \o (IF rowinfo.ftype = "directory" THEN SLASH ELSE <<>>)
    ELSE <<32>>

col_filetype(rowinfo) ==
    IF rowinfo.contenttype = "directory" THEN <<100>>
    ELSE IF rowinfo.contenttype = "binary_executable" THEN <<101>>
    ELSE IF rowinfo.contenttype = "binary_other" THEN <<98>>
    ELSE IF rowinfo.contenttype = "text" THEN <<116>>
    ELSE <<117>>

(***************************************************************************)
(* The preview generator.                                                  *)
(***************************************************************************)
\* _func of preview_directory: the child's name, with "/" if it is a directory
preview_child(fname, subfname) ==
    Drop(pathjoin(fname, subfname)
            \o (IF isdir(real(pathjoin(fname, subfname))) THEN SLASH ELSE <<>>),
         Len(fname) + 1)

\* cleaned as it would be if a space at index 0 counted as a boundary
preview_clean_zero(truncated) ==
    IF RFindSpace(truncated) < 0 THEN truncated
    ELSE Take(truncated, RFindSpace(truncated))

\* cleaned, from truncated
preview_clean(truncated) ==
    IF RFindSpace(truncated) < 1 THEN truncated
    ELSE Take(truncated, RFindSpace(truncated))

\* the end of preview_directory as it would be with  sub_len <= all_len
preview_join_le(sub_files, all_len) ==
    IF Len(sub_files) <= all_len
    THEN Join(<<32>>, <<preview_clean(Take(Join(<<32>>, sub_files), DIR_TRUNC_LEN)),
                        <<46, 46, 46>>>>)
    ELSE preview_clean(Take(Join(<<32>>, sub_files), DIR_TRUNC_LEN))

\* the end of preview_directory, from sub_files and all_len
preview_join(sub_files, all_len) ==
    IF Len(sub_files) < all_len
    THEN Join(<<32>>, <<preview_clean(Take(Join(<<32>>, sub_files), DIR_TRUNC_LEN)),
                        <<46, 46, 46>>>>)
    ELSE preview_clean(Take(Join(<<32>>, sub_files), DIR_TRUNC_LEN))

\* list(map(_func, all_files[:32]))
preview_sample(fname, sampled) ==
    [i \in 1..Len(sampled) |-> preview_child(fname, sampled[i])]

\* the part of preview_directory after os.listdir has answered
preview_listing(fname, all_files) ==
    preview_join(preview_sample(fname, Take(all_files, DIR_SAMPLE_LEN)), Len(all_files))

\* os.listdir raises PermissionError for a directory the caller cannot read
preview_directory(fname) ==
    IF ~access_R(fname) THEN <<45>> ELSE preview_listing(fname, listdir(fname))

\* re.sub('[' + cls + ']+', ' ', s): every maximal run of the class becomes one space
RECURSIVE SubRuns(_, _)
SubRuns(s, cls) ==
    IF s = <<>> THEN <<>>
    ELSE IF Head(s) \in cls
         THEN <<32>> \o (IF Len(s) > 1 /\ s[2] \in cls
                         THEN Tail(SubRuns(Tail(s), cls))
                         ELSE SubRuns(Tail(s), cls))
    ELSE <<Head(s)>> \o SubRuns(Tail(s), cls)

SpaceClass == (9..13) \cup (28..32) \cup {133, 160}          \* \s

InRange(a) == (a >= 33 /\ a <= 126) \/ (a >= 9 /\ a <= 13)

preview_binary(data) ==
    IF Len(data) = 0 THEN <<32>>
    ELSE Take(SubRuns(Strip(SelectSeq(data, InRange)), SpaceClass), PREVIEW_TRUNC_LEN)

\* open(fname, 'rt', errors='replace'): a byte that is not ASCII and starts no
\* valid sequence reads as U+FFFD
Decode(data) == [i \in 1..Len(data) |-> IF data[i] < 128 THEN data[i] ELSE 65533]

TextPat == (0..32) \cup {295} \cup SpaceClass          \* [\u0000-\u0020\u0127\s]

preview_text(data) ==
    IF Len(data) = 0 THEN <<32>>
    ELSE Take(Strip(SubRuns(data, TextPat)), PREVIEW_TRUNC_LEN)

\* fh.read(PREVIEW_READ_LEN) of the file fname names, links followed
ReadBytes(fname) == Take(StatNode(fname).data, PREVIEW_READ_LEN)

\* col_preview: the cell, and whether the file was opened to produce it
col_preview(rowinfo) ==
    IF rowinfo.contenttype = "directory"
    THEN [text |-> preview_directory(rowinfo.fname), opened |-> FALSE]
    ELSE IF rowinfo.contenttype = "binary_other"
    THEN [text |-> preview_binary(ReadBytes(rowinfo.fname)), opened |-> TRUE]
    ELSE IF rowinfo.contenttype = "text"
    THEN [text |-> preview_text(Take(Decode(StatNode(rowinfo.fname).data),
                                     PREVIEW_READ_LEN)),
          opened |-> TRUE]
    ELSE [text |-> <<32>>, opened |-> FALSE]


(***************************************************************************)
(* The column model and the table renderer.                                *)
(***************************************************************************)
\* getrowdefs: the catalog, in display order
Catalog ==
    <<"acls", "owner", "filetype", "size", "timeiso", "srcname", "targetname", "preview">>

ColSet == {Catalog[i] : i \in 1..Len(Catalog)}

OnlyFull(name) == name \in {"acls", "owner", "filetype", "preview"}

Align(name) == IF name = "size" THEN "right" ELSE "left"

\* rec['func'](rowinfo)
ColFunc(name, rowinfo) ==
    CASE name = "acls" -> col_acls(rowinfo)
      [] name = "owner" -> col_owner(rowinfo)
      [] name = "filetype" -> col_filetype(rowinfo)
      [] name = "size" -> col_size(rowinfo)
      [] name = "timeiso" -> col_timeiso(rowinfo)
      [] name = "srcname" -> col_srcname(rowinfo)
      [] name = "targetname" -> col_targetname(rowinfo)
      [] name = "preview" -> col_preview(rowinfo).text

shouldbuild(name, isfull) == ~(OnlyFull(name) /\ ~isfull)

\* dict(map(_func, fdefs.values())) of buildrow
render_of(rowinfo, isfull) ==
    [name \in ColSet |->
        IF shouldbuild(name, isfull) THEN ColFunc(name, rowinfo) ELSE <<32>>]

\* buildrow, from rowinfo: the row, and what building it did outside the
\* process (a classifier run, a file opened for a preview read)
built_of(rowinfo, isfull, oracle) ==
    [row |-> [info |-> rowinfo, render |-> render_of(rowinfo, isfull)],
     oracle |-> oracle,
     opened |-> shouldbuild("preview", isfull) /\ col_preview(rowinfo).opened]

buildrow(fname, out, isfull) ==
    built_of(getrowinfo(fname, out), isfull,
             info_contenttype(fname, lstat(fname), out).oracle)

getcolslisting(isfull) ==
    (IF isfull THEN <<"acls", "owner", "filetype">> ELSE <<>>)
        \o <<"size", "timeiso", "srcname", "targetname">>
        \o (IF isfull THEN <<"preview">> ELSE <<>>)

\* the inner loop of getcolpaddings over row['render'].items()
RECURSIVE PadRow(_, _, _)
PadRow(longest, render, keys) ==
    IF keys = <<>> THEN longest
    ELSE LET colname == Head(keys)
             l0 == IF colname \in DOMAIN longest THEN longest
                   ELSE (colname :> 0) @@ longest
             collen == Len(render[colname])
             l1 == IF collen > l0[colname] THEN [l0 EXCEPT ![colname] = collen] ELSE l0
         IN  PadRow(l1, render, Tail(keys))

RECURSIVE PadRows(_, _)
PadRows(longest, rows) ==
    IF rows = <<>> THEN longest
    ELSE PadRows(PadRow(longest, Head(rows).render, Catalog), Tail(rows))

\* getcolpaddings as it would be if every cell's length were stored without
\* the comparison with the longest so far
getcolpaddings_last(rows) ==
    IF rows = <<>> THEN <<>>
    ELSE [name \in ColSet |-> Len(rows[Len(rows)].render[name])]

getcolpaddings(rows) == PadRows(<<>>, rows)

addpadding(field, val, paddings, align) ==
    IF Len(val) = 0 THEN <<32>>
    ELSE LET padlen == paddings[field]
             fill == Spaces(IF padlen > Len(val) THEN padlen - Len(val) ELSE 0)
         IN  IF align = "right" THEN fill \o val ELSE val \o fill

getcolordefs(row, field) ==
    CASE field = "targetname" -> "targetname"
      [] field = "srcname" ->
            IF row.info.ftype = "directory" THEN "srcname_directory" ELSE "srcname_file"
      [] field = "timeiso" -> "time"
      [] field = "size" ->
            IF row.info.ftype = "directory" THEN "size_filecount" ELSE "size_bytes"
      [] field = "acls" -> "acls"
      [] field = "owner" -> "owner"
      [] field = "filetype" -> "filetype"
      [] field = "preview" -> "preview"
      [] OTHER -> "default"

COLOR_VALS(clr) ==
    CASE clr = "srcname_directory" -> "light_red"
      [] clr = "srcname_file" -> "light_green"
      [] clr = "targetname" -> "light_cyan"
      [] clr = "time" -> "blue"
      [] clr = "size_filecount" -> "magenta"
      [] clr = "size_bytes" -> "green"
      [] clr \in {"acls", "owner", "filetype", "preview"} -> "dark_gray"
      [] OTHER -> "light_magenta"

\* the escape sequence ESC [ n m of a colour name
COLORS(color) ==
    LET n == CASE color = "red" -> 31 [] color = "magenta" -> 35
               [] color = "light_magenta" -> 95 [] color = "green" -> 32
               [] color = "light_green" -> 92 [] color = "light_cyan" -> 96
               [] color = "light_yellow" -> 93 [] color = "light_gray" -> 37
               [] color = "dark_gray" -> 30 [] color = "light_red" -> 91
               [] color = "light_blue" -> 94 [] color = "blue" -> 34
               [] color = "end" -> 0
    IN  <<27, 91>> \o Dec(n) \o <<109>>

addcolor(text, color) == COLORS(color) \o text \o COLORS("end")

makepretty(row, field, paddings) ==
    addcolor(addpadding(field, row.render[field], paddings, Align(field)),
             COLOR_VALS(getcolordefs(row, field)))

structurecols(row, paddings, isfull) ==
    [i \in 1..Len(getcolslisting(isfull)) |->
        makepretty(row, getcolslisting(isfull)[i], paddings)]

rendercols(row, paddings, isfull) ==
    <<32, 32>> \o Join(<<32, 32>>, structurecols(row, paddings, isfull))

\* '\n'.join(rendered) of renderrows
renderwith(rows, paddings, isfull) ==
    Join(<<10>>, [i \in 1..Len(rows) |-> rendercols(rows[i], paddings, isfull)])

renderrows(rows, isfull) == renderwith(rows, getcolpaddings(rows), isfull)

concatoutput(data) == <<10>> \o data \o <<10>> \o <<10>>

\* output.encode('utf-8')
Utf8(c) ==
    IF c < 128 THEN <<c>>
    ELSE IF c < 2048 THEN <<192 + (c \div 64), 128 + (c % 64)>>
    ELSE <<224 + (c \div 4096), 128 + ((c \div 64) % 64), 128 + (c % 64)>>

encode(output) == Concat([i \in 1..Len(output) |-> Utf8(output[i])])

(***************************************************************************)
(* Sorting and the entry scanner.                                          *)
(***************************************************************************)
\* sortfile as it would be with the name compared as it is
sortfile_raw(row) ==
    <<IF row.info.ftype = "directory" THEN 0 ELSE 1, row.info.fname>>

sortfile(row) ==
    <<IF row.info.ftype = "directory" THEN 0 ELSE 1, Lower(Strip(row.info.fname))>>

\* the order of Python tuples (int, str)
KeyLess(a, b) == a[1] < b[1] \/ (a[1] = b[1] /\ StrLess(a[2], b[2]))

\* sorted(rows, key=sortfile): stable, so a row goes behind the rows whose key
\* is not greater than its own
RECURSIVE InsertRow(_, _)
InsertRow(done, row) ==
    IF done = <<>> THEN <<row>>
    ELSE IF KeyLess(sortfile(row), sortfile(Head(done))) THEN <<row>> \o done
    ELSE <<Head(done)>> \o InsertRow(Tail(done), row)

RECURSIVE SortRows(_, _)
SortRows(done, rows) ==
    IF rows = <<>> THEN done ELSE SortRows(InsertRow(done, Head(rows)), Tail(rows))

sorted(rows) == SortRows(<<>>, rows)

\* the paths of get_dir_listing, from realstart and the filtered names
dir_paths(realstart, fpaths) ==
    [i \in 1..Len(fpaths) |->
        pathjoin(IF Take(realstart, 2) = P_cur THEN Drop(realstart, 2) ELSE realstart,
                 fpaths[i])]

dir_filter(lst, filt) ==
    IF filt = None THEN lst ELSE SelectSeq(lst, LAMBDA f : Contains(f, filt))

\* get_dir_listing from start1, for a start path that os.listdir can read;
\* ok = FALSE is the None it returns
dir_listing(start1, filt) ==
    IF ~exists(start1) \/ ~isdir(start1) THEN [ok |-> FALSE, paths |-> <<>>]
    ELSE [ok |-> TRUE,
          paths |-> dir_paths(IF start1 # P_cur THEN relpath(start1) ELSE start1,
                              dir_filter(listdir(start1), filt))]

get_dir_listing(startpath, filt) ==
    dir_listing(IF startpath = None THEN P_cur ELSE startpath, filt)

\* os.listdir(start) raises PermissionError
listdir_raises(startpath) == isdir(startpath) /\ ~access_R(startpath)


(***************************************************************************)
(* The program: main -> run -> getfiles -> renderrows -> display.          *)
(***************************************************************************)
VARIABLES
    start, full, filtres,    \* the arguments of run
    pc,                      \* where the invocation is
    paths,                   \* the paths getfiles has still to build a row for
    processed,               \* the rows built so far, in listing order
    files,                   \* what getfiles returned: ok = FALSE is None
    colpaddings,             \* the widths renderrows computed
    pagerInput,              \* the blobs handed to the pager's standard input
    stderr,                  \* the messages written to standard error
    exitCode,                \* the exit status; -1 while the process runs
    oracleCalls,             \* the classifier runs: the path, and what came of it
    previewOpens,            \* the paths opened for a preview read
    previewOut,              \* the value preview_directory returned
    prevpaddings, lastcol,   \* the widths before the last cell edit, its column
    edits                    \* the cell edits applied so far

vars ==
    <<cwd, start, full, filtres, pc, paths, processed, files, colpaddings, pagerInput,
      stderr, exitCode, oracleCalls, previewOpens, previewOut, prevpaddings, lastcol,
      edits>>

StartPaths == {P_cur, N_B}

FilterStrs == {None, <<98>>}

NoListing == [ok |-> FALSE, rows |-> <<>>]

ErrPath == "Path could not be found, or path is not a directory."

Idle ==
    /\ paths = <<>>
    /\ processed = <<>>
    /\ files = NoListing
    /\ colpaddings = <<>>
    /\ pagerInput = <<>>
    /\ stderr = <<>>
    /\ exitCode = -1
    /\ oracleCalls = <<>>
    /\ previewOpens = <<>>
    /\ previewOut = None
    /\ prevpaddings = <<>>
    /\ lastcol = "none"
    /\ edits = 0

Init ==
    /\ cwd \in CwdChoices
    /\ start \in StartPaths
    /\ full \in BOOLEAN
    /\ filtres \in FilterStrs
    /\ pc = "main"
    /\ Idle

\* run with a start path get_dir_listing rejects: rendererror, return False,
\* and main returns 1
StartInvalid ==
    /\ pc = "main"
    /\ ~get_dir_listing(start, filtres).ok
    /\ stderr' = Append(stderr, ErrPath)
    /\ exitCode' = 1
    /\ pc' = "done"
    /\ UNCHANGED <<cwd, start, full, filtres, paths, processed, files, colpaddings,
                   pagerInput, oracleCalls, previewOpens, previewOut, prevpaddings,
                   lastcol, edits>>

\* os.listdir(start) raises in get_dir_listing: nothing catches it, the
\* interpreter prints the traceback and exits with status 1
StartRaises ==
    /\ pc = "main"
    /\ get_dir_listing(start, filtres).ok
    /\ listdir_raises(start)
    /\ stderr' = Append(stderr, "Traceback: PermissionError")
    /\ exitCode' = 1
    /\ pc' = "crashed"
    /\ UNCHANGED <<cwd, start, full, filtres, paths, processed, files, colpaddings,
                   pagerInput, oracleCalls, previewOpens, previewOut, prevpaddings,
                   lastcol, edits>>

StartListing ==
    /\ pc = "main"
    /\ get_dir_listing(start, filtres).ok
    /\ ~listdir_raises(start)
    /\ paths' = get_dir_listing(start, filtres).paths
    /\ pc' = "build"
    /\ UNCHANGED <<cwd, start, full, filtres, processed, files, colpaddings, pagerInput,
                   stderr, exitCode, oracleCalls, previewOpens, previewOut, prevpaddings,
                   lastcol, edits>>

\* the effect of one buildrow call
Built(fname, out, b) ==
    /\ processed' = Append(processed, b.row)
    /\ oracleCalls' =
          IF b.oracle
          THEN Append(oracleCalls,
                      [fname |-> fname,
                       result |-> IF out = O_none THEN "no output" ELSE "output"])
          ELSE oracleCalls
    /\ previewOpens' = IF b.opened THEN Append(previewOpens, fname) ELSE previewOpens

\* processrows, as sorted() draws the next row from it: buildrow(fname)
BuildRow ==
    /\ pc = "build"
    /\ paths # <<>>
    /\ \E out \in OracleOutputs :
          Built(Head(paths), out, buildrow(Head(paths), out, full))
    /\ paths' = Tail(paths)
    /\ UNCHANGED <<cwd, start, full, filtres, pc, files, colpaddings, pagerInput, stderr,
                   exitCode, previewOut, prevpaddings, lastcol, edits>>

\* buildrow(fname) when the classifier cannot be started: Popen raises inside
\* getfileinfo, nothing catches it, the interpreter exits with status 1
BuildRowRaises ==
    /\ pc = "build"
    /\ paths # <<>>
    /\ info_contenttype(Head(paths), lstat(Head(paths)), CannotStart).ct = "raised"
    /\ oracleCalls' = Append(oracleCalls, [fname |-> Head(paths), result |-> "not started"])
    /\ stderr' = Append(stderr, "Traceback: FileNotFoundError")
    /\ exitCode' = 1
    /\ pc' = "crashed"
    /\ UNCHANGED <<cwd, start, full, filtres, paths, processed, files, colpaddings,
                   pagerInput, previewOpens, previewOut, prevpaddings, lastcol, edits>>

\* run, from the rows getfiles returned
Rendered(rows) ==
    /\ files' = [ok |-> TRUE, rows |-> rows]
    /\ colpaddings' = getcolpaddings(rows)
    /\ pagerInput' = Append(pagerInput, encode(concatoutput(renderrows(rows, full))))

\* every row is built: getfiles returns the sorted rows, run renders them and
\* hands the blob to the pager, and main returns 0
Finish ==
    /\ pc = "build"
    /\ paths = <<>>
    /\ Rendered(sorted(processed))
    /\ exitCode' = 0
    /\ pc' = "done"
    /\ UNCHANGED <<cwd, start, full, filtres, paths, processed, stderr, oracleCalls,
                   previewOpens, previewOut, prevpaddings, lastcol, edits>>

Next == StartInvalid \/ StartRaises \/ StartListing \/ BuildRow \/ BuildRowRaises \/ Finish

Spec == Init /\ [][Next]_vars


(***************************************************************************)
(* preview_directory on its own: the working directory holds one directory *)
(* D, whose children are a few chosen ones followed by generated ones.     *)
(***************************************************************************)
N_D == <<68>>

LongName(k) == [i \in 1..k |-> 122]

\* the generated child i: "f" and two digits
FillerName(i) == <<102, 48 + (i \div 10), 48 + (i % 10)>>

Filler(n) == [i \in 1..n |-> Entry(FillerName(i), Reg(<<>>, 420))]

HeadChoices ==
    { <<>>,
      <<Entry(<<32, 120>>, Reg(<<>>, 420))>>,
      <<Entry(<<97, 32, 98>>, Reg(<<>>, 420))>>,
      <<Entry(LongName(DIR_TRUNC_LEN + 2), Reg(<<>>, 420))>>,
      <<Entry(LongName(DIR_TRUNC_LEN), Reg(<<>>, 420))>>,
      <<Entry(LongName(DIR_TRUNC_LEN - 1), Reg(<<>>, 420)), Entry(<<108>>, Link(P_e))>>,
      <<Entry(<<115, 117, 98>>, Dir(<<>>, 493))>>,
      <<Entry(LongName(DIR_TRUNC_LEN - 8), Reg(<<>>, 420)),
        Entry(<<97, 98, 99, 100, 32, 101, 102, 103, 104>>, Reg(<<>>, 420))>>,
      <<Entry(<<97, 32, 98>>, Reg(<<>>, 420)),
        Entry(LongName(DIR_TRUNC_LEN + 2), Reg(<<>>, 420))>> }

PreviewInit ==
    /\ \E h \in HeadChoices, n \in 0..MaxFiller, m \in {493, 0} :
          cwd = <<Entry(N_D, Dir(h \o Filler(n), m))>>
    /\ start = P_cur
    /\ full = TRUE
    /\ filtres = None
    /\ pc = "preview"
    /\ Idle

\* col_preview calls preview_directory(fname) for the row of D
PreviewDirectory ==
    /\ pc = "preview"
    /\ previewOut' = preview_directory(N_D)
    /\ pc' = "previewed"
    /\ UNCHANGED <<cwd, start, full, filtres, paths, processed, files, colpaddings,
                   pagerInput, stderr, exitCode, oracleCalls, previewOpens, prevpaddings,
                   lastcol, edits>>

SpecPreview == PreviewInit /\ [][PreviewDirectory]_vars


(***************************************************************************)
(* getcolpaddings on its own: renderrows computes the widths of a row set, *)
(* one cell of the row set is replaced, and renderrows computes them again.*)
(***************************************************************************)
BlankRender == [name \in ColSet |-> <<32>>]

SampleRender ==
    [name \in ColSet |->
        IF name = "size" THEN <<49, 50>>
        ELSE IF name = "srcname" THEN <<97, 98, 99>>
        ELSE <<32>>]

CellPool == {<<>>, <<97, 98, 99, 100>>}

RowSets ==
    UNION {[1..n -> {[render |-> BlankRender], [render |-> SampleRender]}] : n \in 0..MaxRows}

PadInit ==
    /\ cwd = <<>>
    /\ start = P_cur
    /\ full = TRUE
    /\ filtres = None
    /\ pc = "pad"
    /\ paths = <<>>
    /\ processed = <<>>
    /\ \E rows \in RowSets :
          /\ files = [ok |-> TRUE, rows |-> rows]
          /\ colpaddings = getcolpaddings(rows)
    /\ pagerInput = <<>>
    /\ stderr = <<>>
    /\ exitCode = -1
    /\ oracleCalls = <<>>
    /\ previewOpens = <<>>
    /\ previewOut = None
    /\ prevpaddings = <<>>
    /\ lastcol = "none"
    /\ edits = 0

\* renderrows on the row set with one cell replaced
Repadded(rows, K) ==
    /\ files' = [ok |-> TRUE, rows |-> rows]
    /\ colpaddings' = getcolpaddings(rows)
    /\ prevpaddings' = colpaddings
    /\ lastcol' = K
    /\ edits' = edits + 1

EditCell ==
    /\ pc = "pad"
    /\ edits < MaxEdits
    /\ \E i \in 1..Len(files.rows), K \in ColSet, v \in CellPool :
          Repadded([files.rows EXCEPT ![i].render[K] = v], K)
    /\ UNCHANGED <<cwd, start, full, filtres, pc, paths, processed, pagerInput, stderr,
                   exitCode, oracleCalls, previewOpens, previewOut>>

SpecPad == PadInit /\ [][EditCell]_vars


(***************************************************************************)
(* Properties of a listing (specification Spec).                           *)
(***************************************************************************)
Terminated == pc \in {"done", "crashed"}

RowKeyName(r) == Lower(Strip(r.info.fname))

\* C1: in the listing getfiles returns, every row of logical type directory
\* comes before every row of logical type file, and within each of the two
\* groups the names, stripped and lower-cased, ascend.  The listing holds
\* exactly the rows that were built.
C1_SortedListing ==
    (pc = "done" /\ files.ok) =>
        /\ Len(files.rows) = Len(processed)
        /\ {files.rows[i] : i \in 1..Len(files.rows)}
              = {processed[i] : i \in 1..Len(processed)}
        /\ \A i, j \in 1..Len(files.rows) :
              i < j =>
                /\ (files.rows[j].info.ftype = "directory"
                      => files.rows[i].info.ftype = "directory")
                /\ (files.rows[i].info.ftype = files.rows[j].info.ftype
                      => ~StrLess(RowKeyName(files.rows[j]), RowKeyName(files.rows[i])))

\* a listing of a directory and a file that the scan met in the other order
C1_Witness ==
    /\ pc = "done"
    /\ files.ok
    /\ Len(files.rows) = 2
    /\ files.rows # processed
    /\ files.rows[1].info.ftype = "directory"
    /\ files.rows[2].info.ftype = "file"

\* C2: a start path that does not exist or is not a directory builds no row,
\* runs no classifier, opens no file, hands nothing to the pager, writes one
\* error message and ends with a non-zero exit code; a start path that is an
\* existing directory ends with exit code 0.
C2_StartPath ==
    Terminated =>
        IF exists(start) /\ isdir(start)
        THEN exitCode = 0
        ELSE /\ processed = <<>>
             /\ oracleCalls = <<>>
             /\ previewOpens = <<>>
             /\ pagerInput = <<>>
             /\ Len(stderr) = 1
             /\ exitCode > 0

OracleFailed(call) == call.result \in {"no output", "not started"}

\* C3: when the classifier cannot be started or writes nothing for an entry,
\* the run goes on, the entry's row has content category unknown and (in full
\* mode) type tag "u", and the invocation, once over, has built a row for
\* every entry and exits 0.
C3_OracleFailure ==
    \A k \in 1..Len(oracleCalls) :
        OracleFailed(oracleCalls[k]) =>
            /\ pc # "crashed"
            /\ \E i \in 1..Len(processed) :
                  /\ processed[i].info.fname = oracleCalls[k].fname
                  /\ processed[i].info.contenttype = "unknown"
                  /\ (full => processed[i].render["filetype"] = <<117>>)
            /\ (Terminated => exitCode = 0 /\ paths = <<>>)

ZeroSizeFile(fname) == ~isdir(fname) /\ lstat(fname).st_size = 0

\* C4: a non-directory entry whose stat snapshot has size 0 has content
\* category empty, whatever its permissions and whatever the classifier
\* would answer, and the classifier is never run for it.
C4_EmptyFile ==
    /\ \A i \in 1..Len(processed) :
          ZeroSizeFile(processed[i].info.fname) => processed[i].info.contenttype = "empty"
    /\ \A k \in 1..Len(oracleCalls) : ~ZeroSizeFile(oracleCalls[k].fname)

\* C4, amended: the classifier is never run for a non-directory entry of size
\* 0; its content category is empty if the caller can read it, and
\* not_readable if the caller cannot.
C4_EmptyFileReadable ==
    /\ \A i \in 1..Len(processed) :
          ZeroSizeFile(processed[i].info.fname) =>
              processed[i].info.contenttype
                 = (IF access_R(processed[i].info.fname) THEN "empty" ELSE "not_readable")
    /\ \A k \in 1..Len(oracleCalls) : ~ZeroSizeFile(oracleCalls[k].fname)

\* a readable file of size 0 was built next to a file the classifier ran on
C4_Witness ==
    /\ oracleCalls # <<>>
    /\ \E i \in 1..Len(processed) :
          /\ ZeroSizeFile(processed[i].info.fname)
          /\ access_R(processed[i].info.fname)
          /\ processed[i].info.contenttype = "empty"

\* C5: in non-full mode the acls, owner, filetype and preview cells of every
\* row are one space, the classifier is never run and no file is opened for
\* a preview read.
C5_NonFullNoIO ==
    ~full =>
        /\ \A i \in 1..Len(processed) :
              \A K \in {"acls", "owner", "filetype", "preview"} :
                  processed[i].render[K] = <<32>>
        /\ oracleCalls = <<>>
        /\ previewOpens = <<>>

\* the visible width of the line rendercols makes of row i of the listing
LineWidth(i) ==
    Len(Concat([k \in 1..Len(getcolslisting(full)) |->
            <<32, 32>> \o addpadding(getcolslisting(full)[k],
                                     files.rows[i].render[getcolslisting(full)[k]],
                                     colpaddings, Align(getcolslisting(full)[k]))]))

\* C9: every row buildrow makes has every catalog column in its render
\* mapping with a non-empty value, and the lines of a rendered listing all
\* have the same visible width.
C9_RectangularGrid ==
    /\ \A i \in 1..Len(processed) :
          \A K \in ColSet :
              K \in DOMAIN processed[i].render /\ Len(processed[i].render[K]) >= 1
    /\ (pc = "done" /\ files.ok =>
          \A i, j \in 1..Len(files.rows) : LineWidth(i) = LineWidth(j))

\* C10: for every row built, the logical type is directory exactly when the
\* content category is directory, and so the "/" suffix of the source name
\* and (in full mode) the type tag "d" agree with it.
C10_KindAgrees ==
    \A i \in 1..Len(processed) :
        /\ (processed[i].info.ftype = "directory")
              <=> (processed[i].info.contenttype = "directory")
        /\ (full => ((processed[i].render["srcname"]
                         = processed[i].info.fname \o SLASH)
                       <=> (processed[i].render["filetype"] = <<100>>)))


(***************************************************************************)
(* Properties of the column widths (specification SpecPad).                *)
(***************************************************************************)
CellLens(rows, K) == {Len(rows[i].render[K]) : i \in 1..Len(rows)}

\* C6: the width getcolpaddings yields for a column is the greatest length of
\* that column's cell over the rows, and replacing one cell of column K
\* leaves the width of every other column as it was.
C6_ColumnWidths ==
    pc = "pad" =>
        /\ DOMAIN colpaddings = (IF files.rows = <<>> THEN {} ELSE ColSet)
        /\ \A K \in DOMAIN colpaddings : colpaddings[K] = Max(CellLens(files.rows, K))
        /\ (lastcol # "none" =>
              \A K \in ColSet \ {lastcol} : colpaddings[K] = prevpaddings[K])

\* a cell replacement changed the width of its own column while another
\* column is wider than a blank
C6_Witness ==
    /\ pc = "pad"
    /\ lastcol # "none"
    /\ Len(files.rows) = 2
    /\ colpaddings[lastcol] # prevpaddings[lastcol]
    /\ \E K \in ColSet \ {lastcol} : colpaddings[K] > 1


(***************************************************************************)
(* Properties of the directory preview (specification SpecPreview).        *)
(***************************************************************************)
ChildrenOfD == cwd[1].node.children

Listed == pc = "previewed" /\ CanRead(cwd[1].node)

Marker == <<32, 46, 46, 46>>

HasMarker(s) == Len(s) >= Len(Marker) /\ SubSeq(s, Len(s) - Len(Marker) + 1, Len(s)) = Marker

PreviewBody ==
    IF HasMarker(previewOut) THEN Take(previewOut, Len(previewOut) - Len(Marker))
    ELSE previewOut

\* a sampled child as the preview names it: "/" after what is a directory
\* once links are followed
ChildShown(e) == e.name \o (IF isdir(pathjoin(N_D, e.name)) THEN SLASH ELSE <<>>)

ShownNames ==
    [i \in 1..(IF Len(ChildrenOfD) < DIR_SAMPLE_LEN THEN Len(ChildrenOfD) ELSE DIR_SAMPLE_LEN)
        |-> ChildShown(ChildrenOfD[i])]

Prefix == Take(Join(<<32>>, ShownNames), DIR_TRUNC_LEN)

SpacesIn(s) == {i \in 1..Len(s) : s[i] = 32}

EndsOnName(b) == \E k \in 0..Len(ShownNames) : b = Join(<<32>>, Take(ShownNames, k))

\* C7: preview_directory appends the marker " ..." exactly when the
\* directory has more than 32 children.
C7_MarkerIffOverSample ==
    pc = "previewed" => (HasMarker(previewOut) <=> Len(ChildrenOfD) > DIR_SAMPLE_LEN)

\* C7, amended: when the children can be listed the marker is there exactly
\* when there are more than 32 of them; when listing them is refused the
\* preview is "-", however many there are.
C7_MarkerWhenListed ==
    pc = "previewed" =>
        IF CanRead(cwd[1].node)
        THEN HasMarker(previewOut) <=> Len(ChildrenOfD) > DIR_SAMPLE_LEN
        ELSE previewOut = <<45>>

\* a listed directory of more than 32 children whose preview ends in the marker
C7_Witness ==
    /\ Listed
    /\ Len(ChildrenOfD) > DIR_SAMPLE_LEN
    /\ HasMarker(previewOut)
    /\ Len(PreviewBody) > 0

\* C8: the body of the preview is the joined names cut to 38 characters and
\* then cut back to the last space, so it is at most 38 characters long and
\* ends with a whole child name; the cut to 38 is kept as it is only when the
\* 38-character prefix holds no space.
C8_BodyEndsOnName ==
    Listed =>
        /\ Len(PreviewBody) <= DIR_TRUNC_LEN
        /\ IF SpacesIn(Prefix) = {} THEN PreviewBody = Prefix
           ELSE /\ PreviewBody = Take(Prefix, Max(SpacesIn(Prefix)) - 1)
                /\ EndsOnName(PreviewBody)

\* C8, amended: the body is at most 38 characters long; it is the prefix cut
\* back to its last space when that space is not its first character, and
\* the prefix as it is otherwise; when no child name holds a space and the
\* prefix holds one, the body ends with a whole child name.
C8_BodyCutAtLastSpace ==
    Listed =>
        /\ Len(PreviewBody) <= DIR_TRUNC_LEN
        /\ IF SpacesIn(Prefix) \ {1} = {} THEN PreviewBody = Prefix
           ELSE PreviewBody = Take(Prefix, Max(SpacesIn(Prefix)) - 1)
        /\ ((\A i \in 1..Len(ChildrenOfD) : SpacesIn(ChildrenOfD[i].name) = {})
              /\ SpacesIn(Prefix) # {}
                => EndsOnName(PreviewBody))

\* joined names longer than 38 characters were cut back to a whole name
C8_Witness ==
    /\ Listed
    /\ Len(Join(<<32>>, ShownNames)) > DIR_TRUNC_LEN
    /\ SpacesIn(Prefix) # {}
    /\ PreviewBody # Prefix
    /\ EndsOnName(PreviewBody)
    /\ Len(PreviewBody) > 0

====
